---- MODULE Spec2Model ----
(***************************************************************************)
(* Model of github_metrics.py: the request loop of                         *)
(* GitHubMetricsCollector._make_request ("execute") and the collector      *)
(* methods that call it.  One step of the model is one pass through the    *)
(* body of the while loop of _make_request (one requests.request call, the *)
(* classification of its outcome, and the sleep that follows it), or the   *)
(* code of a collector method that runs between two such calls.            *)
(*                                                                         *)
(* The remote service, the clock (time.time) and the caller's arguments    *)
(* are the inputs; they are drawn from the small sets defined below.       *)
(***************************************************************************)
EXTENDS Integers, Sequences, FiniteSets, TLC

VARIABLES
    headers,       \* self.headers
    base_url,      \* self.base_url
    max_retries,   \* self.max_retries
    retry_delay,   \* self.retry_delay
    pc,            \* position of the caller of _make_request
    url,           \* argument url of the running _make_request
    method,        \* argument method
    kwargs,        \* argument **kwargs
    retries,       \* local variable retries of _make_request
    epc,           \* "none" | "loop" | "returned" | "raised"
    response,      \* the response returned by _make_request
    exc,           \* the exception _make_request (or its caller) raised
    sent,          \* the requests.request calls of this _make_request call
    slept,         \* slept[i]: the time.sleep that followed attempt i
    kinds,         \* kinds[i]: how attempt i was classified
    last,          \* outcome of the latest attempt and the clock reading
    basic_metrics, \* collect_all_metrics: result of get_repo_basic_metrics
    views_data,    \* get_traffic_data: views_data
    clones_data,   \* get_traffic_data: clones_data
    traffic_data,  \* collect_all_metrics: result of get_traffic_data
    metrics,       \* the record collect_all_metrics returned
    status,        \* collect_all_metrics: "idle" | "running" | "returned" | "raised"
    mpc,           \* main: "lib" (no main), "start", "collecting", "done",
                   \* "config_error"
    env,           \* GITHUB_TOKEN, GITHUB_OWNER, GITHUB_REPO ("" when unset)
    format,        \* args.format
    files,         \* the files export_data wrote
    prev           \* the previous call of collect_all_metrics: what it read
                   \* and what it returned

cfgVars  == <<headers, base_url, max_retries, retry_delay>>
execVars == <<url, method, kwargs, retries, epc, response, exc,
              sent, slept, kinds, last>>
collVars == <<basic_metrics, views_data, clones_data, traffic_data, metrics,
              status>>
mainVars == <<mpc, env, format, files>>
vars     == <<cfgVars, pc, execVars, collVars, mainVars, prev>>

(***************************************************************************)
(* Bounds of the model.                                                    *)
(***************************************************************************)
MaxRetriesBound == 3                 \* max_retries ranges over -1..bound

MaxRetriesValues == -1 .. MaxRetriesBound
RetryDelays      == {2}
Tokens           == {"tok"}
Owners           == {"octo"}
Repos            == {"lens"}
Clock            == {1000}           \* values time.time() returns
Timestamps       == {7000, 7001}     \* values datetime.now() returns
Formats          == {"csv", "json", "both"}   \* choices of --format

\* defaults of GitHubMetricsCollector.__init__
DefaultMaxRetries == 3
DefaultRetryDelay == 5

(***************************************************************************)
(* Program constants.                                                      *)
(***************************************************************************)
WaitCap == 3600                      \* cap of a rate-limit wait, in seconds
NoSleep == 0 - 1                     \* marks "no time.sleep after attempt"

Min(a, b) == IF a < b THEN a ELSE b

(***************************************************************************)
(* Python dicts are sets of <<key, value>> pairs.                          *)
(***************************************************************************)
HasKey(d, k) == \E p \in d : p[1] = k
Lookup(d, k) == (CHOOSE p \in d : p[1] = k)[2]
Get(d, k, default) == IF HasKey(d, k) THEN Lookup(d, k) ELSE default

(***************************************************************************)
(* Response headers.  X-RateLimit-Remaining is "absent" or its text.       *)
(* X-RateLimit-Reset is absent, text that int() rejects, a unix time, or   *)
(* a number beyond the range datetime.fromtimestamp accepts ("big").       *)
(***************************************************************************)
AbsentReset  == [kind |-> "absent", val |-> 0]
GarbageReset == [kind |-> "text",   val |-> 0]
BigReset     == [kind |-> "big",    val |-> 0]
NumReset(n)  == [kind |-> "num",    val |-> n]

ResetTimes       == {990, 1000, 1010, 4599, 6000}
ResetHeaders     == {AbsentReset, GarbageReset, BigReset}
                        \cup {NumReset(n) : n \in ResetTimes}

(***************************************************************************)
(* Response bodies: a JSON object, a JSON array, or no JSON at all.        *)
(***************************************************************************)
ObjBody(d) == [json |-> "object", obj |-> d, arr |-> <<>>]
ArrBody(s) == [json |-> "array", obj |-> {}, arr |-> s]
NoBody     == [json |-> "invalid", obj |-> {}, arr |-> <<>>]

TrafficBody == ObjBody({<<"count", 5>>, <<"uniques", 2>>})
RepoBody    == ObjBody({<<"stargazers_count", 3>>, <<"forks_count", 2>>,
                        <<"subscribers_count", 4>>, <<"open_issues_count", 1>>,
                        <<"updated_at", 20>>})
ForkA       == {<<"owner.login", 11>>, <<"created_at", 5>>, <<"updated_at", 6>>,
                <<"stargazers_count", 0>>}
ForkB       == {<<"owner.login", 12>>, <<"created_at", 7>>, <<"updated_at", 9>>,
                <<"stargazers_count", 1>>}
ForksBody   == ArrBody(<<ForkA, ForkB>>)
Bodies      == {TrafficBody, RepoBody, ForksBody, NoBody}

(***************************************************************************)
(* Outcomes of one requests.request call: a response, or an exception of   *)
(* the transport (a RequestException that is not an HTTPError).            *)
(***************************************************************************)
Resp(s, rem, rst, b) ==
    [net |-> "none", status |-> s, remaining |-> rem, reset |-> rst, body |-> b]
NetFailure(c) ==
    [net |-> c, status |-> 0, remaining |-> "absent", reset |-> AbsentReset,
     body |-> NoBody]

NetworkErrors == {"ConnectionError", "Timeout"}

OkResponses ==
    {Resp(200, "57", NumReset(4600), b) : b \in Bodies}
        \cup {Resp(204, "absent", AbsentReset, NoBody),
              Resp(304, "57", NumReset(4600), NoBody)}
Forbidden ==
    {Resp(403, "0", rst, NoBody) : rst \in ResetHeaders}
        \cup {Resp(403, "57", rst, NoBody) :
                  rst \in {AbsentReset, NumReset(1010)}}
        \cup {Resp(403, "absent", rst, NoBody) :
                  rst \in {AbsentReset, NumReset(1010)}}
OtherErrors ==
    {Resp(404, "57", NumReset(1010), NoBody),
     Resp(500, "absent", AbsentReset, NoBody)}
Outcomes ==
    OkResponses \cup Forbidden \cup OtherErrors
        \cup {NetFailure(c) : c \in NetworkErrors}

NoOutcome  == [o |-> NetFailure("none"), t |-> 0, retries |-> 0]
NoResponse == NetFailure("none")

(***************************************************************************)
(* Exceptions: a type and one argument (reset_time of a RateLimitError,    *)
(* status of an HTTPError).                                                *)
(***************************************************************************)
Exc(type, arg) == [type |-> type, arg |-> arg]
NoExc          == Exc("None", 0)

\* raise RateLimitError(reset_time): __init__ formats
\* datetime.fromtimestamp(reset_time), which raises ValueError when the
\* timestamp is outside the years datetime supports.
RateLimitError(rt) ==
    IF rt.kind = "big" THEN Exc("ValueError", 0)
    ELSE Exc("RateLimitError", rt.val)

\* The exception an attempt raises inside the try block and that
\* "except RequestException" catches: the transport's exception, or the
\* HTTPError of response.raise_for_status() (HTTPError is a subclass of
\* RequestException).
RequestException(o) ==
    IF o.net # "none" THEN Exc(o.net, 0) ELSE Exc("HTTPError", o.status)

(***************************************************************************)
(* The decisions of _make_request.                                         *)
(***************************************************************************)
\* while retries <= self.max_retries
loop_continues(r, m) == r <= m

is_rate_limited_when_exhausted(o) ==
    /\ o.net = "none"
    /\ o.status = 403
    /\ o.remaining = "0"

is_rate_limited_any_status(o) ==
    /\ o.net = "none"
    /\ o.remaining # "absent"

\* response.status_code == 403 and 'X-RateLimit-Remaining' in headers
is_rate_limited(o) ==
    /\ o.net = "none"
    /\ o.status = 403
    /\ o.remaining # "absent"

\* int(response.headers['X-RateLimit-Reset']): KeyError when the header is
\* absent, ValueError when it is not a number.
reset_error(h) ==
    CASE h.kind = "absent" -> Exc("KeyError", 0)
      [] h.kind = "text"   -> Exc("ValueError", 0)
      [] OTHER             -> NoExc

\* wait_time = reset_time - time.time()
wait_time(rt, t) == rt.val - t
wait_positive(rt, t) == rt.kind = "big" \/ wait_time(rt, t) > 0

may_wait_unbounded(rt, t, r, m) == wait_positive(rt, t)
may_wait_inclusive(rt, t, r, m) == wait_positive(rt, t) /\ r <= m

\* if wait_time > 0 and retries < self.max_retries
may_wait(rt, t, r, m) == wait_positive(rt, t) /\ r < m

rate_limit_sleep_nobuffer(rt, t) ==
    IF rt.kind = "big" THEN WaitCap ELSE Min(wait_time(rt, t), WaitCap)

\* wait_time = min(wait_time + 1, 3600)
rate_limit_sleep(rt, t) ==
    IF rt.kind = "big" THEN WaitCap ELSE Min(wait_time(rt, t) + 1, WaitCap)

\* response.raise_for_status() raises HTTPError for 4xx and 5xx
raises_for_status(s) == 400 <= s /\ s < 600

may_backoff_inclusive(r, m) == r <= m

\* except RequestException: if retries < self.max_retries
may_backoff(r, m) == r < m

backoff_sleep_linear(d, r) == d * (r + 1)
backoff_sleep_constant(d, r) == d

\* wait_time = self.retry_delay * (2 ** retries)
backoff_sleep(d, r) == d * (2 ^ r)

\* the attempt raised something "except RequestException" catches
caught(o) ==
    \/ o.net # "none"
    \/ (~is_rate_limited(o) /\ raises_for_status(o.status))

Request_without_token ==
    [method |-> method, url |-> url,
     headers |-> [headers EXCEPT !.Authorization = <<"token", "">>],
     kwargs |-> kwargs]

\* the call requests.request(method, url, headers=self.headers, **kwargs)
Request == [method |-> method, url |-> url, headers |-> headers,
            kwargs |-> kwargs]

\* what one pass of the loop leaves behind
Attempt(o, t, kind, sleep) ==
    /\ sent' = Append(sent, Request)
    /\ kinds' = Append(kinds, kind)
    /\ slept' = Append(slept, sleep)
    /\ last' = [o |-> o, t |-> t, retries |-> retries]

InLoop == epc = "loop" /\ loop_continues(retries, max_retries)

(***************************************************************************)
(* _make_request: one action per way a pass of the loop can end.           *)
(***************************************************************************)
\* lines 100-123: no rate limit, no error status: return response
Return(o) ==
    /\ InLoop
    /\ o.net = "none"
    /\ ~is_rate_limited(o)
    /\ ~raises_for_status(o.status)
    /\ Attempt(o, 0, "ok", NoSleep)
    /\ epc' = "returned"
    /\ response' = o
    /\ UNCHANGED <<cfgVars, mainVars, prev, pc, url, method, kwargs, retries, exc, collVars>>

\* lines 108-109: the rate-limit branch cannot read the reset header
ResetHeaderError(o) ==
    /\ InLoop
    /\ is_rate_limited(o)
    /\ reset_error(o.reset) # NoExc
    /\ Attempt(o, 0, "badreset", NoSleep)
    /\ epc' = "raised"
    /\ exc' = reset_error(o.reset)
    /\ UNCHANGED <<cfgVars, mainVars, prev, pc, url, method, kwargs, retries, response,
                   collVars>>

\* lines 108-117: rate limited, wait for the reset and try again
RateLimitWait(o, t) ==
    /\ InLoop
    /\ is_rate_limited(o)
    /\ reset_error(o.reset) = NoExc
    /\ may_wait(o.reset, t, retries, max_retries)
    /\ Attempt(o, t, "ratelimit", rate_limit_sleep(o.reset, t))
    /\ retries' = retries + 1
    /\ UNCHANGED <<cfgVars, mainVars, prev, pc, url, method, kwargs, epc, response, exc,
                   collVars>>

\* lines 118-119: rate limited, raise RateLimitError(reset_time)
RateLimitRaise(o, t) ==
    /\ InLoop
    /\ is_rate_limited(o)
    /\ reset_error(o.reset) = NoExc
    /\ ~may_wait(o.reset, t, retries, max_retries)
    /\ Attempt(o, t, "ratelimit", NoSleep)
    /\ epc' = "raised"
    /\ exc' = RateLimitError(o.reset)
    /\ UNCHANGED <<cfgVars, mainVars, prev, pc, url, method, kwargs, retries, response,
                   collVars>>

\* lines 125-130: a RequestException with retries left: back off, try again
BackoffRetry(o) ==
    /\ InLoop
    /\ caught(o)
    /\ may_backoff(retries, max_retries)
    /\ Attempt(o, 0, IF o.net # "none" THEN "network" ELSE "http",
               backoff_sleep(retry_delay, retries))
    /\ retries' = retries + 1
    /\ UNCHANGED <<cfgVars, mainVars, prev, pc, url, method, kwargs, epc, response, exc,
                   collVars>>

\* lines 131-133: a RequestException with no retries left: raise
Reraise(o) ==
    /\ InLoop
    /\ caught(o)
    /\ ~may_backoff(retries, max_retries)
    /\ Attempt(o, 0, IF o.net # "none" THEN "network" ELSE "http", NoSleep)
    /\ epc' = "raised"
    /\ exc' = RequestException(o)
    /\ UNCHANGED <<cfgVars, mainVars, prev, pc, url, method, kwargs, retries, response,
                   collVars>>

\* line 135: the while condition is false
LoopExit ==
    /\ epc = "loop"
    /\ ~loop_continues(retries, max_retries)
    /\ epc' = "raised"
    /\ exc' = Exc("Exception", 0)
    /\ UNCHANGED <<cfgVars, mainVars, prev, pc, url, method, kwargs, retries, response,
                   sent, slept, kinds, last, collVars>>

make_request ==
    \/ \E o \in Outcomes : Return(o)
    \/ \E o \in Outcomes : ResetHeaderError(o)
    \/ \E o \in Outcomes, t \in Clock : RateLimitWait(o, t)
    \/ \E o \in Outcomes, t \in Clock : RateLimitRaise(o, t)
    \/ \E o \in Outcomes : BackoffRetry(o)
    \/ \E o \in Outcomes : Reraise(o)
    \/ LoopExit

Enter_shared_counter(u, m, k) ==
    /\ url' = u
    /\ method' = m
    /\ kwargs' = k
    /\ retries' = retries
    /\ epc' = "loop"
    /\ response' = NoResponse
    /\ exc' = NoExc
    /\ sent' = <<>>
    /\ slept' = <<>>
    /\ kinds' = <<>>
    /\ last' = NoOutcome

\* entering _make_request(url, method, **kwargs): retries = 0
Enter(u, m, k) ==
    /\ url' = u
    /\ method' = m
    /\ kwargs' = k
    /\ retries' = 0
    /\ epc' = "loop"
    /\ response' = NoResponse
    /\ exc' = NoExc
    /\ sent' = <<>>
    /\ slept' = <<>>
    /\ kinds' = <<>>
    /\ last' = NoOutcome

(***************************************************************************)
(* The collector.  pc is the call site of the running _make_request:       *)
(* "direct" (a caller of _make_request itself), "basic", "views",          *)
(* "clones", "forks"; it stays at the site where an exception came from.   *)
(***************************************************************************)
Url(o, r, path) == [base |-> base_url, owner |-> o, repo |-> r, path |-> path]

NoBasic   == [stars |-> 0, forks |-> 0, watchers |-> 0, open_issues |-> 0,
              last_updated |-> 0]
NoTraffic == [total_views |-> 0, unique_visitors |-> 0, total_clones |-> 0,
              unique_cloners |-> 0]
NoMetrics == [timestamp |-> 0, repository |-> <<"", "">>, basic |-> NoBasic,
              traffic |-> NoTraffic, fork_count |-> 0, fork_details |-> <<>>]

\* views_data = {'count': 0, 'uniques': 0}
ZeroData == ObjBody({<<"count", 0>>, <<"uniques", 0>>})

Finished_returned_only == epc = "returned"

\* _make_request is over: it returned (line 123) or raised
Finished == epc \in {"returned", "raised"}

Fail_returns(e) ==
    /\ status' = "returned"
    /\ exc' = e
    /\ UNCHANGED <<cfgVars, mainVars, prev, pc, url, method, kwargs, retries,
                   epc, response, sent, slept, kinds, last>>

\* collect_all_metrics, "except Exception as e: ... raise"
Fail(e) ==
    /\ status' = "raised"
    /\ exc' = e
    /\ UNCHANGED <<cfgVars, mainVars, prev, pc, url, method, kwargs, retries, epc, response,
                   sent, slept, kinds, last>>

\* a caller of _make_request(url, method, **kwargs)
CallDirect(u, m, k) ==
    /\ mpc = "lib"
    /\ pc = "idle"
    /\ pc' = "direct"
    /\ Enter(u, m, k)
    /\ UNCHANGED <<cfgVars, mainVars, prev, collVars>>

\* collect_all_metrics(owner, repo) up to the first request
\* (get_repo_basic_metrics, lines 148-149)
CollectAll(o, r) ==
    /\ mpc = "lib"
    /\ pc = "idle"
    /\ pc' = "basic"
    /\ status' = "running"
    /\ Enter(Url(o, r, ""), "GET", "none")
    /\ UNCHANGED <<cfgVars, mainVars, prev, basic_metrics, views_data, clones_data,
                   traffic_data, metrics>>

\* data[k] for the five keys of get_repo_basic_metrics
BasicKeys == {"stargazers_count", "forks_count", "subscribers_count",
              "open_issues_count", "updated_at"}
basic_error(b) ==
    CASE b.json = "invalid" -> Exc("JSONDecodeError", 0)
      [] b.json = "array"   -> Exc("TypeError", 0)
      [] \E k \in BasicKeys : ~HasKey(b.obj, k) -> Exc("KeyError", 0)
      [] OTHER -> NoExc
basic_of(d) ==
    [stars |-> Lookup(d, "stargazers_count"),
     forks |-> Lookup(d, "forks_count"),
     watchers |-> Lookup(d, "subscribers_count"),
     open_issues |-> Lookup(d, "open_issues_count"),
     last_updated |-> Lookup(d, "updated_at")]

\* get_repo_basic_metrics after its request (lines 150-158), then
\* get_traffic_data up to its first request (lines 172-176)
BasicDone ==
    /\ pc = "basic" /\ status = "running" /\ Finished
    /\ IF epc = "raised" THEN
           /\ Fail(exc)
           /\ UNCHANGED <<basic_metrics, views_data, clones_data,
                          traffic_data, metrics>>
       ELSE IF basic_error(response.body) # NoExc THEN
           /\ Fail(basic_error(response.body))
           /\ UNCHANGED <<basic_metrics, views_data, clones_data,
                          traffic_data, metrics>>
       ELSE
           /\ basic_metrics' = basic_of(response.body.obj)
           /\ pc' = "views"
           /\ Enter(Url(url.owner, url.repo, "/traffic/views"), "GET", "none")
           /\ UNCHANGED <<cfgVars, mainVars, prev, views_data, clones_data, traffic_data,
                          metrics, status>>

absorbed_request_exception(e) ==
    e.type \in {"HTTPError"} \cup NetworkErrors

\* except HTTPError as e (lines 178, 185)
absorbed(e) == e.type = "HTTPError"

\* views_response.json() / clones_response.json()
json_error(b) ==
    IF b.json = "invalid" THEN Exc("JSONDecodeError", 0) ELSE NoExc

\* the guarded call of get_traffic_data: the data it leaves, or the
\* exception that propagates
guarded_error ==
    IF epc = "raised" THEN (IF absorbed(exc) THEN NoExc ELSE exc)
    ELSE json_error(response.body)
guarded_data ==
    IF epc = "raised" THEN ZeroData ELSE response.body

\* get_traffic_data after the views request (lines 177-183)
ViewsDone ==
    /\ pc = "views" /\ status = "running" /\ Finished
    /\ IF guarded_error # NoExc THEN
           /\ Fail(guarded_error)
           /\ UNCHANGED <<basic_metrics, views_data, clones_data,
                          traffic_data, metrics>>
       ELSE
           /\ views_data' = guarded_data
           /\ pc' = "clones"
           /\ Enter(Url(url.owner, url.repo, "/traffic/clones"), "GET", "none")
           /\ UNCHANGED <<cfgVars, mainVars, prev, basic_metrics, clones_data, traffic_data,
                          metrics, status>>

\* views_data.get(...) / clones_data.get(...): a list has no get
get_error(v, c) ==
    IF v.json = "array" \/ c.json = "array" THEN Exc("AttributeError", 0)
    ELSE NoExc
traffic_of_plus_retries(v, c) ==
    [total_views |-> Get(v.obj, "count", 0),
     unique_visitors |-> Get(v.obj, "uniques", 0),
     total_clones |-> Get(c.obj, "count", 0) + retries,
     unique_cloners |-> Get(c.obj, "uniques", 0)]
traffic_of_views_only(v, c) ==
    [total_views |-> Get(v.obj, "count", 0),
     unique_visitors |-> Get(v.obj, "uniques", 0),
     total_clones |-> Get(v.obj, "count", 0),
     unique_cloners |-> Get(v.obj, "uniques", 0)]
traffic_of(v, c) ==
    [total_views |-> Get(v.obj, "count", 0),
     unique_visitors |-> Get(v.obj, "uniques", 0),
     total_clones |-> Get(c.obj, "count", 0),
     unique_cloners |-> Get(c.obj, "uniques", 0)]

\* get_traffic_data after the clones request (lines 184-194), then
\* get_fork_details up to its request (lines 207-208)
ClonesDone ==
    /\ pc = "clones" /\ status = "running" /\ Finished
    /\ IF guarded_error # NoExc THEN
           /\ Fail(guarded_error)
           /\ UNCHANGED <<basic_metrics, views_data, clones_data,
                          traffic_data, metrics>>
       ELSE IF get_error(views_data, guarded_data) # NoExc THEN
           /\ clones_data' = guarded_data
           /\ Fail(get_error(views_data, guarded_data))
           /\ UNCHANGED <<basic_metrics, views_data, traffic_data, metrics>>
       ELSE
           /\ clones_data' = guarded_data
           /\ traffic_data' = traffic_of(views_data, guarded_data)
           /\ pc' = "forks"
           /\ Enter(Url(url.owner, url.repo, "/forks"), "GET", "none")
           /\ UNCHANGED <<cfgVars, mainVars, prev, basic_metrics, views_data, metrics, status>>

\* fork[k] for the keys of get_fork_details
ForkKeys == {"owner.login", "created_at", "updated_at", "stargazers_count"}
forks_error(b) ==
    CASE b.json = "invalid" -> Exc("JSONDecodeError", 0)
      [] b.json = "object" /\ b.obj # {} -> Exc("TypeError", 0)
      [] \E i \in 1..Len(b.arr) : \E k \in ForkKeys : ~HasKey(b.arr[i], k)
             -> Exc("KeyError", 0)
      [] OTHER -> NoExc
fork_of(f) ==
    [owner |-> Lookup(f, "owner.login"),
     created_at |-> Lookup(f, "created_at"),
     last_updated |-> Lookup(f, "updated_at"),
     stars |-> Lookup(f, "stargazers_count")]
fork_details_of(b) == [i \in 1..Len(b.arr) |-> fork_of(b.arr[i])]

\* get_fork_details after its request (lines 209-216), then the record of
\* collect_all_metrics (lines 236-243); now is datetime.now()
ForksDone(now) ==
    /\ pc = "forks" /\ status = "running" /\ Finished
    /\ IF epc = "raised" THEN
           /\ Fail(exc)
           /\ UNCHANGED <<basic_metrics, views_data, clones_data,
                          traffic_data, metrics>>
       ELSE IF forks_error(response.body) # NoExc THEN
           /\ Fail(forks_error(response.body))
           /\ UNCHANGED <<basic_metrics, views_data, clones_data,
                          traffic_data, metrics>>
       ELSE
           /\ metrics' = [timestamp |-> now,
                          repository |-> <<url.owner, url.repo>>,
                          basic |-> basic_metrics,
                          traffic |-> traffic_data,
                          fork_count |-> Len(fork_details_of(response.body)),
                          fork_details |-> fork_details_of(response.body)]
           /\ status' = "returned"
           /\ UNCHANGED <<cfgVars, mainVars, prev, pc, execVars, basic_metrics, views_data,
                          clones_data, traffic_data>>

\* the call is over; the collector is used again
CallOver ==
    \/ pc = "direct" /\ Finished
    \/ status \in {"returned", "raised"}
Forget ==
    /\ pc' = "idle"
    /\ url' = Url("", "", "")
    /\ method' = "GET"
    /\ kwargs' = "none"
    /\ retries' = 0
    /\ epc' = "none"
    /\ response' = NoResponse
    /\ exc' = NoExc
    /\ sent' = <<>>
    /\ slept' = <<>>
    /\ kinds' = <<>>
    /\ last' = NoOutcome
    /\ basic_metrics' = NoBasic
    /\ views_data' = NoBody
    /\ clones_data' = NoBody
    /\ traffic_data' = NoTraffic
    /\ metrics' = NoMetrics
    /\ status' = "idle"
NextCall ==
    /\ mpc = "lib"
    /\ CallOver
    /\ Forget
    /\ UNCHANGED <<cfgVars, mainVars, prev>>

\* a caller keeps what collect_all_metrics read and returned, and is about
\* to call it again on the same collector
Again ==
    /\ mpc = "lib"
    /\ status = "returned"
    /\ prev' = [set |-> TRUE, basic |-> basic_metrics, views |-> views_data,
                clones |-> clones_data, forks |-> response.body,
                metrics |-> metrics]
    /\ Forget
    /\ UNCHANGED <<cfgVars, mainVars>>

(***************************************************************************)
(* GitHubMetricsCollector(token, max_retries, retry_delay)                 *)
(***************************************************************************)
(***************************************************************************)
(* main()                                                                  *)
(***************************************************************************)
NoEnv == [token |-> "", owner |-> "", repo |-> ""]
Envs  == [token : {""} \cup Tokens, owner : {""} \cup Owners,
          repo : {""} \cup Repos]
NoPrev == [set |-> FALSE, basic |-> NoBasic, views |-> NoBody,
           clones |-> NoBody, forks |-> NoBody, metrics |-> NoMetrics]

missing_token_only(e) == e.token = ""

\* if not token / if not owner / if not repo (lines 326-331)
missing(e) == e.token = "" \/ e.owner = "" \/ e.repo = ""

\* lines 321-331: a required variable is unset: raise ValueError
MainConfigError ==
    /\ mpc = "start"
    /\ missing(env)
    /\ mpc' = "config_error"
    /\ exc' = Exc("ValueError", 0)
    /\ UNCHANGED <<cfgVars, pc, url, method, kwargs, retries, epc, response,
                   sent, slept, kinds, last, collVars, env, format, files,
                   prev>>

\* lines 321-339: collector = GitHubMetricsCollector(token), then
\* collector.collect_all_metrics(owner, repo) up to its first request
MainCollect ==
    /\ mpc = "start"
    /\ ~missing(env)
    /\ headers' = [Authorization |-> <<"token", env.token>>,
                   Accept |-> "application/vnd.github.v3+json"]
    /\ base_url' = "https://api.github.com"
    /\ max_retries' = DefaultMaxRetries
    /\ retry_delay' = DefaultRetryDelay
    /\ mpc' = "collecting"
    /\ pc' = "basic"
    /\ status' = "running"
    /\ Enter([base |-> base_url', owner |-> env.owner, repo |-> env.repo,
              path |-> ""], "GET", "none")
    /\ UNCHANGED <<basic_metrics, views_data, clones_data, traffic_data,
                   metrics, env, format, files, prev>>

export_formats_always(fmt, st) ==
    CASE fmt = "csv"  -> <<"csv">>
      [] fmt = "json" -> <<"json">>
      [] OTHER        -> <<"csv", "json">>

\* lines 339-345: the exports main reaches; an exception of
\* collect_all_metrics leaves the try block before any of them
export_formats(fmt, st) ==
    IF st # "returned" THEN <<>>
    ELSE CASE fmt = "csv"  -> <<"csv">>
           [] fmt = "json" -> <<"json">>
           [] OTHER        -> <<"csv", "json">>

\* export_data(data, output_dir, 'github_metrics', format): the file it
\* writes; the CSV form holds str(fork_details), the JSON form the list
export_data(data, fmt) ==
    [name |-> "github_metrics", format |-> fmt,
     data |-> IF fmt = "csv"
              THEN [data EXCEPT !.fork_details = <<"str", @>>]
              ELSE data]

\* lines 339-352: the rest of the try block and its except clauses; the
\* first n exports succeed, the next one (if any) raises and is logged
MainFinish(n) ==
    /\ mpc = "collecting"
    /\ status \in {"returned", "raised"}
    /\ n \in 0..Len(export_formats(format, status))
    /\ files' = [i \in 1..n |->
                     export_data(metrics, export_formats(format, status)[i])]
    /\ exc' = IF n < Len(export_formats(format, status))
              THEN Exc("OSError", 0) ELSE exc
    /\ mpc' = "done"
    /\ UNCHANGED <<cfgVars, pc, url, method, kwargs, retries, epc, response,
                   sent, slept, kinds, last, collVars, env, format, prev>>

main ==
    \/ MainConfigError
    \/ MainCollect
    \/ \E n \in 0..2 : MainFinish(n)

\* a collector somebody constructed: GitHubMetricsCollector(token,
\* max_retries, retry_delay)
Constructed ==
    /\ mpc = "lib"
    /\ \E tok \in Tokens :
           headers = [Authorization |-> <<"token", tok>>,
                      Accept |-> "application/vnd.github.v3+json"]
    /\ base_url = "https://api.github.com"
    /\ max_retries \in MaxRetriesValues
    /\ retry_delay \in RetryDelays
    /\ env = NoEnv
    /\ format = "none"

\* the start of main(): arguments parsed, environment read, no collector
Started ==
    /\ mpc = "start"
    /\ headers = [Authorization |-> <<"token", "">>, Accept |-> ""]
    /\ base_url = ""
    /\ max_retries = 0
    /\ retry_delay = 0
    /\ env \in Envs
    /\ format \in Formats

Init ==
    /\ (Constructed \/ Started)
    /\ files = <<>>
    /\ prev = NoPrev
    /\ pc = "idle"
    /\ url = Url("", "", "")
    /\ method = "GET"
    /\ kwargs = "none"
    /\ retries = 0
    /\ epc = "none"
    /\ response = NoResponse
    /\ exc = NoExc
    /\ sent = <<>>
    /\ slept = <<>>
    /\ kinds = <<>>
    /\ last = NoOutcome
    /\ basic_metrics = NoBasic
    /\ views_data = NoBody
    /\ clones_data = NoBody
    /\ traffic_data = NoTraffic
    /\ metrics = NoMetrics
    /\ status = "idle"

DirectUrls    == {[base |-> "https://api.github.com", owner |-> "octo",
                   repo |-> "lens", path |-> "/stargazers"]}
DirectMethods == {"GET", "POST"}
DirectKwargs  == {"params"}

Next ==
    \/ \E u \in DirectUrls, m \in DirectMethods, k \in DirectKwargs :
           CallDirect(u, m, k)
    \/ \E o \in Owners, r \in Repos : CollectAll(o, r)
    \/ make_request
    \/ BasicDone
    \/ ViewsDone
    \/ ClonesDone
    \/ \E now \in Timestamps : ForksDone(now)
    \/ NextCall
    \/ main

Spec == Init /\ [][Next]_vars

(***************************************************************************)
(* Two calls of collect_all_metrics in a row on one collector.             *)
(***************************************************************************)
TwinMaxRetries == 1

TwinInit == Init /\ mpc = "lib" /\ max_retries = TwinMaxRetries
TwinNext ==
    \/ \E o \in Owners, r \in Repos : CollectAll(o, r)
    \/ \E o \in Outcomes : Return(o)
    \/ \E o \in Outcomes : ResetHeaderError(o)
    \/ \E o \in Outcomes, t \in Clock : RateLimitWait(o, t)
    \/ \E o \in Outcomes, t \in Clock : RateLimitRaise(o, t)
    \/ \E o \in Outcomes : BackoffRetry(o)
    \/ \E o \in Outcomes : Reraise(o)
    \/ BasicDone
    \/ ViewsDone
    \/ ClonesDone
    \/ \E now \in Timestamps : ForksDone(now)
    \/ NextCall
    \/ Again
TwinSpec == TwinInit /\ [][TwinNext]_vars

(***************************************************************************)
(* Calls of a constructed collector, every step of which is eventually     *)
(* taken: a request returns or fails, a sleep ends, the code runs on.      *)
(***************************************************************************)
LiveMaxRetries == 2

LiveInit == Init /\ mpc = "lib" /\ max_retries \in {0 - 1, LiveMaxRetries}
LiveNext ==
    \/ \E u \in DirectUrls, m \in DirectMethods, k \in DirectKwargs :
           CallDirect(u, m, k)
    \/ \E o \in Owners, r \in Repos : CollectAll(o, r)
    \/ make_request
    \/ BasicDone
    \/ ViewsDone
    \/ ClonesDone
    \/ \E now \in Timestamps : ForksDone(now)
    \/ NextCall
LiveSpec == LiveInit /\ [][LiveNext]_vars /\ WF_vars(LiveNext)

(***************************************************************************)
(* Properties.  n is the number of attempts made so far by the running     *)
(* _make_request; attempt i was made with retries = i - 1.                 *)
(***************************************************************************)
NAttempts == Len(kinds)
Sleeps    == {i \in 1..Len(slept) : slept[i] # NoSleep}
NetworkBefore(i) == Cardinality({j \in 1..(i - 1) : kinds[j] = "network"})
OthersBefore(i)  == Cardinality({j \in 1..(i - 1) : kinds[j] # "network"})

\* C1: a response with a non-rate-limit HTTP error status ends the call at
\* once with HTTPError: it is the last attempt, and no sleep follows it.
C1_HttpErrorNotRetried ==
    \A i \in 1..NAttempts :
        kinds[i] = "http" =>
            /\ i = NAttempts
            /\ slept[i] = NoSleep
            /\ epc = "raised"
            /\ exc.type = "HTTPError"

\* C2 as stated: the sleep after the n-th network failure is
\* retry_delay * 2^(n-1), whatever happened between the network failures.
C2_Original ==
    \A i \in 1..NAttempts :
        (kinds[i] = "network" /\ slept[i] # NoSleep) =>
            slept[i] = retry_delay * (2 ^ NetworkBefore(i))

\* C2 (amended): the sleep after the n-th network failure is
\* retry_delay * 2^(n-1+k), k being the number of retries of other kinds
\* (rate-limit waits, retried HTTP errors) made earlier in the call; it is
\* retry_delay * 2^(n-1) when only network failures came before.
C2_BackoffCountsAllRetries ==
    \A i \in 1..NAttempts :
        (kinds[i] = "network" /\ slept[i] # NoSleep) =>
            /\ slept[i] =
                   retry_delay * (2 ^ (NetworkBefore(i) + OthersBefore(i)))
            /\ (OthersBefore(i) = 0 =>
                   slept[i] = retry_delay * (2 ^ NetworkBefore(i)))
C2_Witness ==
    /\ NAttempts >= 3
    /\ kinds[1] = "network" /\ kinds[2] = "ratelimit" /\ kinds[3] = "network"
    /\ slept[1] = retry_delay
    /\ slept[3] = retry_delay * 4

\* C3: a network failure met with retries = max_retries ends the call with
\* that network error, with no sleep and no further request; when every
\* attempt failed at network level the call made max_retries + 1 requests
\* and max_retries sleeps.
C3_NetworkErrorSurfaced ==
    /\ (/\ NAttempts > 0
        /\ kinds[NAttempts] = "network"
        /\ last.retries = max_retries) =>
            /\ epc = "raised"
            /\ exc = [type |-> last.o.net, arg |-> 0]
            /\ slept[NAttempts] = NoSleep
            /\ Len(sent) = NAttempts
    /\ (/\ epc = "raised"
        /\ NAttempts > 0
        /\ \A i \in 1..NAttempts : kinds[i] = "network") =>
            /\ Len(sent) = max_retries + 1
            /\ Cardinality(Sleeps) = max_retries
            /\ exc.type \in NetworkErrors
C3_Witness ==
    /\ epc = "raised"
    /\ max_retries >= 2
    /\ NAttempts = max_retries + 1
    /\ \A i \in 1..NAttempts : kinds[i] = "network"
    /\ exc.type = "Timeout"

\* C4: a rate-limited response with wait > 0 and retries < max_retries is
\* followed by a sleep of min(wait + 1, 3600), whatever retries is; retries
\* goes up by one and the loop goes on with the same request.
C4_RateLimitWait ==
    /\ (/\ NAttempts > 0
        /\ last.o.net = "none"
        /\ last.o.status = 403
        /\ last.o.remaining # "absent"
        /\ last.o.reset.kind = "num"
        /\ last.o.reset.val - last.t > 0
        /\ last.retries < max_retries) =>
            /\ slept[NAttempts] =
                   (IF last.o.reset.val - last.t + 1 < 3600
                    THEN last.o.reset.val - last.t + 1 ELSE 3600)
            /\ retries = last.retries + 1
            /\ epc = "loop"
            /\ retries <= max_retries
    /\ \A i \in 1..Len(sent) :
           sent[i] = [method |-> method, url |-> url, headers |-> headers,
                      kwargs |-> kwargs]
C4_Witness ==
    /\ NAttempts = 3
    /\ kinds[2] = "network"
    /\ kinds[3] = "ratelimit"
    /\ last.o.reset = NumReset(1010)
    /\ slept[3] = 11
    /\ retries = 3
    /\ method = "POST"

\* C5: a rate-limited response met with retries = max_retries, or with
\* wait <= 0, ends the call with RateLimitError carrying the response's
\* reset timestamp, with no sleep.
C5_RateLimitExceeded ==
    (/\ NAttempts > 0
     /\ last.o.net = "none"
     /\ last.o.status = 403
     /\ last.o.remaining # "absent"
     /\ \/ last.retries = max_retries
        \/ (last.o.reset.kind = "num" /\ last.o.reset.val - last.t <= 0)) =>
        /\ epc = "raised"
        /\ exc.type = "RateLimitError"
        /\ exc.arg = last.o.reset.val
        /\ slept[NAttempts] = NoSleep

\* C6: a 2xx response is returned at once: the call is over with that
\* response, no sleep follows, and as the first response it leaves the
\* call with no sleep at all.
C6_SuccessReturns ==
    (/\ NAttempts > 0
     /\ last.o.net = "none"
     /\ last.o.status >= 200
     /\ last.o.status < 300) =>
        /\ epc = "returned"
        /\ response = last.o
        /\ slept[NAttempts] = NoSleep
        /\ Len(sent) = NAttempts
        /\ (NAttempts = 1 => Sleeps = {})
C6_Witness ==
    /\ epc = "returned"
    /\ NAttempts = 3
    /\ response.status = 200
    /\ response.remaining = "57"
    /\ Cardinality(Sleeps) = 2

\* C7: whatever the service answered, a call of _make_request ends by
\* returning a response or by raising one of RateLimitError, HTTPError and
\* the network errors.
C7_ClassifiedErrors ==
    (epc = "raised" /\ NAttempts > 0) =>
        exc.type \in {"RateLimitError", "HTTPError"} \cup NetworkErrors

\* C8 as stated: the fallback after the loop is never reached, whatever
\* max_retries is.
C8_Original ==
    ~(epc = "raised" /\ exc = [type |-> "Exception", arg |-> 0])

\* C8 (amended): for every max_retries >= 0 the fallback after the loop is
\* never reached: while the call runs the loop condition holds, and the
\* call never ends with the generic exception.
C8_FallbackUnreachable ==
    max_retries >= 0 =>
        /\ (epc = "loop" => retries <= max_retries)
        /\ ~(epc = "raised" /\ exc = [type |-> "Exception", arg |-> 0])
C8_Witness ==
    /\ max_retries >= 2
    /\ epc = "loop"
    /\ retries = max_retries
    /\ kinds[1] = "ratelimit"

\* C9: in get_traffic_data a call that raised HTTPError leaves zeros for
\* its two fields and the other call is still made; each pair of fields of
\* the result is the count/uniques of its own response.
C9_Count(b)   == IF \E p \in b.obj : p[1] = "count"
                 THEN (CHOOSE p \in b.obj : p[1] = "count")[2] ELSE 0
C9_Uniques(b) == IF \E p \in b.obj : p[1] = "uniques"
                 THEN (CHOOSE p \in b.obj : p[1] = "uniques")[2] ELSE 0
C9_HttpError  == epc = "raised" /\ exc.type = "HTTPError"
C9_TrafficDefaults ==
    [][/\ (pc = "views" /\ status = "running" /\ C9_HttpError) =>
              /\ pc' = "clones"
              /\ status' = "running"
              /\ epc' = "loop"
              /\ sent' = <<>>
              /\ url' = [url EXCEPT !.path = "/traffic/clones"]
              /\ views_data'.json = "object"
              /\ views_data'.obj = {<<"count", 0>>, <<"uniques", 0>>}
       /\ (/\ pc = "clones" /\ status = "running"
           /\ views_data.json = "object"
           /\ \/ C9_HttpError
              \/ (epc = "returned" /\ response.body.json = "object")) =>
              /\ pc' = "forks"
              /\ traffic_data'.total_views = C9_Count(views_data)
              /\ traffic_data'.unique_visitors = C9_Uniques(views_data)
              /\ traffic_data'.total_clones =
                     (IF C9_HttpError THEN 0 ELSE C9_Count(response.body))
              /\ traffic_data'.unique_cloners =
                     (IF C9_HttpError THEN 0 ELSE C9_Uniques(response.body))
      ]_vars
C9_Witness ==
    /\ pc = "forks"
    /\ views_data = ZeroData
    /\ clones_data = TrafficBody
    /\ traffic_data = [total_views |-> 0, unique_visitors |-> 0,
                       total_clones |-> 5, unique_cloners |-> 2]

\* C10: in get_traffic_data a call that raised RateLimitError or a network
\* error is not absorbed: collect_all_metrics raises that same exception
\* and returns no record.
C10_Propagates ==
    [][(/\ pc \in {"views", "clones"}
        /\ status = "running"
        /\ epc = "raised"
        /\ exc.type \in {"RateLimitError"} \cup NetworkErrors) =>
            /\ status' = "raised"
            /\ exc' = exc
            /\ pc' = pc
            /\ metrics' = NoMetrics
            /\ traffic_data' = NoTraffic
      ]_vars
C10_Witness ==
    /\ status = "raised"
    /\ pc = "clones"
    /\ exc.type = "RateLimitError"
    /\ views_data = TrafficBody
    /\ metrics = NoMetrics

\* C11: collect_all_metrics makes its calls in the order basic, views,
\* clones, forks, each entered only when the one before is over; when the
\* basic or the forks call fails, collect_all_metrics raises that same
\* exception, returns no record and makes no further request.
C11_Sites == {"basic", "views", "clones", "forks"}
C11_Path(site) ==
    CASE site = "basic"  -> ""
      [] site = "views"  -> "/traffic/views"
      [] site = "clones" -> "/traffic/clones"
      [] OTHER           -> "/forks"
C11_FixedOrder ==
    [][/\ (pc' # pc /\ pc' \in C11_Sites) =>
              /\ <<pc, pc'>> \in {<<"idle", "basic">>, <<"basic", "views">>,
                                  <<"views", "clones">>, <<"clones", "forks">>}
              /\ (pc \in C11_Sites => epc \in {"returned", "raised"})
              /\ epc' = "loop"
              /\ sent' = <<>>
              /\ url'.path = C11_Path(pc')
       /\ (pc \in C11_Sites /\ pc' = pc /\ Len(sent') > Len(sent)) =>
              /\ status = "running"
              /\ sent'[Len(sent')].url.path = C11_Path(pc)
       /\ (pc \in {"basic", "forks"} /\ status = "running" /\ epc = "raised") =>
              /\ status' = "raised"
              /\ exc' = exc
              /\ pc' = pc
              /\ sent' = sent
              /\ metrics' = NoMetrics
       /\ (status' = "raised") => metrics' = NoMetrics
       /\ (status = "raised") => (sent' = sent \/ pc' = "idle")
      ]_vars
C11_Witness ==
    /\ status = "raised"
    /\ pc = "forks"
    /\ exc.type = "ConnectionError"
    /\ traffic_data.total_clones = 5
    /\ metrics = NoMetrics

\* C12: in a run of main, when collect_all_metrics raised, no export is
\* made: no file is written, whatever the format asked for.
C12_NoExportOnFailure ==
    (mpc \in {"collecting", "done"} /\ status # "returned") => files = <<>>
C12_Witness ==
    /\ mpc = "done"
    /\ format = "both"
    /\ status = "raised"
    /\ pc = "forks"
    /\ exc.type = "Timeout"
    /\ Len(sent) = 4
    /\ files = <<>>

\* C13 as stated: the retry counter of a call starts at 0, counts the
\* retries of that call only, and stays within 0..max_retries.
C13_Original ==
    epc = "loop" =>
        /\ (NAttempts = 0 => retries = 0)
        /\ retries = Cardinality(Sleeps)
        /\ retries \in 0..max_retries

\* C13 (amended): the retry counter of a call starts at 0 and counts the
\* retries of that call only, so a later call has the full budget and the
\* base delay whatever earlier calls used; for max_retries >= 0 the counter
\* stays within 0..max_retries.
C13_OwnCounter ==
    epc \in {"loop", "returned", "raised"} =>
        /\ (NAttempts = 0 => retries = 0)
        /\ retries = Cardinality(Sleeps)
        /\ (NAttempts > 0 => last.retries = NAttempts - 1)
        /\ (max_retries >= 0 => retries \in 0..max_retries)
        /\ ((NAttempts > 0 /\ kinds[1] \in {"network", "http"}
                /\ max_retries > 0) => slept[1] = retry_delay)
C13_Witness ==
    /\ pc = "clones"
    /\ views_data = ZeroData
    /\ max_retries >= 2
    /\ kinds = <<"network">>
    /\ slept = <<retry_delay>>
    /\ retries = 1

\* C14: once the collector is constructed no step changes its headers,
\* base URL, max_retries or retry_delay, and every request carries the
\* headers of the collector.
C14_ConfigFrame ==
    [][/\ (mpc # "start") =>
              /\ headers' = headers
              /\ base_url' = base_url
              /\ max_retries' = max_retries
              /\ retry_delay' = retry_delay
       /\ \A i \in 1..Len(sent') :
              /\ sent'[i].headers = headers'
              /\ sent'[i].headers.Authorization[2] # ""
              /\ sent'[i].url.base = base_url'
      ]_vars
C14_Witness ==
    /\ mpc = "done"
    /\ status = "returned"
    /\ pc = "forks"
    /\ Len(sent) = 3
    /\ sent[3].headers = [Authorization |-> <<"token", "tok">>,
                          Accept |-> "application/vnd.github.v3+json"]
    /\ max_retries = 3
    /\ retry_delay = 5

\* C15: in a run of main with the token, the owner or the repository name
\* unset, the run ends with the configuration error (ValueError) before
\* the collector exists: no request is made and no file is written.
C15_ConfigErrorFirst ==
    (mpc # "lib" /\ (env.token = "" \/ env.owner = "" \/ env.repo = "")) =>
        /\ mpc \in {"start", "config_error"}
        /\ (mpc = "config_error" => exc = [type |-> "ValueError", arg |-> 0])
        /\ pc = "idle"
        /\ epc = "none"
        /\ status = "idle"
        /\ sent = <<>>
        /\ files = <<>>
C15_Witness ==
    /\ mpc = "config_error"
    /\ env.token = "tok"
    /\ env.owner = "octo"
    /\ env.repo = ""
    /\ sent = <<>>
    /\ files = <<>>

\* C17: a response goes down the rate-limit branch exactly when its status
\* is 403 and it carries X-RateLimit-Remaining, whatever the header says; a
\* 403 without the header is an HTTP error like any other: no reset-time
\* wait, no RateLimitError.
C17_Forbidden == NAttempts > 0 /\ last.o.net = "none" /\ last.o.status = 403
C17_RateLimitDetection ==
    NAttempts > 0 =>
        /\ (kinds[NAttempts] \in {"ratelimit", "badreset"}) <=>
               (C17_Forbidden /\ last.o.remaining \in {"0", "57"})
        /\ (C17_Forbidden /\ last.o.remaining = "absent") =>
               /\ kinds[NAttempts] = "http"
               /\ slept[NAttempts] \in
                      {NoSleep, retry_delay * (2 ^ last.retries)}
               /\ ((epc = "raised" /\ status # "raised") =>
                      exc = [type |-> "HTTPError", arg |-> 403])
               /\ exc.type # "RateLimitError"
               /\ epc # "returned"
C17_Witness ==
    /\ NAttempts = 2
    /\ kinds = <<"http", "ratelimit">>
    /\ last.o.status = 403
    /\ last.o.remaining = "57"
    /\ sent[1].url.path = "/traffic/views"
    /\ slept[2] = 11

\* C18: the backoff sleep after a network failure with retries left is
\* retry_delay * 2^retries, retries being the one counter of the call, which
\* has counted every earlier retry of the call, rate-limit waits included.
C18_BackoffUsesCounter ==
    (/\ NAttempts > 0
     /\ kinds[NAttempts] = "network"
     /\ last.retries < max_retries) =>
        /\ slept[NAttempts] = retry_delay * (2 ^ last.retries)
        /\ last.retries = Cardinality({j \in 1..(NAttempts - 1) :
                                          slept[j] # NoSleep})
        /\ retries = last.retries + 1
        /\ epc = "loop"
C18_Witness ==
    /\ NAttempts = 3
    /\ kinds = <<"ratelimit", "ratelimit", "network">>
    /\ slept = <<3600, 11, 4 * retry_delay>>

\* C19: for max_retries >= 0 a call makes at most max_retries + 1 requests
\* and at most max_retries sleeps, rate-limit waits and backoff sleeps
\* together; the requests made never exceed the sleeps made by more than 1.
C19_Budget ==
    max_retries >= 0 =>
        /\ Len(sent) <= max_retries + 1
        /\ Cardinality(Sleeps) <= max_retries
        /\ Len(sent) <= Cardinality(Sleeps) + 1
        /\ Len(slept) = Len(sent)
C19_Witness ==
    /\ max_retries = 3
    /\ Len(sent) = 4
    /\ Cardinality(Sleeps) = 3
    /\ kinds = <<"ratelimit", "network", "http", "ratelimit">>
    /\ epc = "raised"

\* C16: two calls of collect_all_metrics in a row on one collector that
\* read the same data from the four endpoints return records that are
\* equal in every field but timestamp.
C16_SameAnswers ==
    /\ prev.set
    /\ status = "returned"
    /\ prev.basic = basic_metrics
    /\ prev.views = views_data
    /\ prev.clones = clones_data
    /\ prev.forks = response.body
C16_Deterministic ==
    C16_SameAnswers =>
        /\ metrics.repository = prev.metrics.repository
        /\ metrics.basic = prev.metrics.basic
        /\ metrics.traffic = prev.metrics.traffic
        /\ metrics.fork_count = prev.metrics.fork_count
        /\ metrics.fork_details = prev.metrics.fork_details
C16_Witness ==
    /\ C16_SameAnswers
    /\ views_data = ZeroData
    /\ clones_data = TrafficBody
    /\ retries = 1
    /\ metrics.timestamp # prev.metrics.timestamp
    /\ metrics.traffic = prev.metrics.traffic

\* C20: when every request returns or fails and every sleep ends, every
\* call of _make_request comes to an end, and so does every call of
\* collect_all_metrics, whatever the service answers.
C20_Terminates ==
    /\ (epc = "loop") ~> (epc \in {"returned", "raised"})
    /\ (status = "running") ~> (status \in {"returned", "raised"})
C20_Witness ==
    /\ status = "raised"
    /\ pc = "forks"
    /\ max_retries = LiveMaxRetries
    /\ \A i \in 1..NAttempts : kinds[i] = "ratelimit"
    /\ NAttempts = max_retries + 1
    /\ exc.type = "RateLimitError"

====
